---- MODULE Spec2Model ----
(***************************************************************************)
(* tigerscope: the ingestion-api (the Gateway), which validates telemetry  *)
(* events and publishes them to the log, and the writer-consumer, which    *)
(* reads the log and writes the events to the object store.                *)
(*                                                                         *)
(* The writer-consumer (services/writer-consumer/main.go): one             *)
(* WriterHandler, shared by the ConsumeClaim loops of every partition      *)
(* the consumer group session claims, buffers parsed telemetry events and  *)
(* flushes them as parquet objects to the object store.                    *)
(*                                                                         *)
(* Threads: 0 is the goroutine of main, which calls Consume and in which   *)
(* the session runs Setup and Cleanup; p >= 1 is the goroutine running     *)
(* ConsumeClaim for partition p.  Each thread has a program counter, and   *)
(* one action is one statement group of the source, so that the order of   *)
(* the statements inside a handler and the interleavings of the goroutines *)
(* are visible.                                                            *)
(***************************************************************************)
EXTENDS Integers, Sequences, FiniteSets, TLC

\* Configuration (FLUSH_EVERY_N, FLUSH_EVERY_SECS), scaled down.
FlushEveryN == 2
FlushEverySecs == 2

\* Bounds of the exploration.
MaxMsgs == 3        \* messages read, all partitions together
MaxTime == 4        \* the clock stops here
MaxSessions == 2    \* consumer group sessions (rebalances)
MaxFailures == 2    \* failed flush attempts
\* The same, when two partitions are claimed (their loops interleave).
MaxMsgsMulti == 3
MaxTimeMulti == 2
MaxSessionsMulti == 1
MaxFailuresMulti == 1
\* The same, when the process is restarted after it ends.
MaxMsgsCrash == 2
MaxTimeCrash == 2
MaxSessionsCrash == 2
MaxFailuresCrash == 1
\* The same, for the runs in which time and sessions go on for ever.
MaxMsgsLive == 2
MaxTimeLive == 3     \* the clock is kept within this distance of its origin
MaxSessionsLive == 1
MaxFailuresLive == 1

Main == 0
Partitions == {1, 2}
Threads == {Main} \cup Partitions

(***************************************************************************)
(* The ingestion-api (the Gateway): what its /ingest handler works on.     *)
(***************************************************************************)
\* ENVIRONMENT, the deployment configuration.
Env == "local"
\* cfg.Producer.Retry.Max
RetryMax == 5

\* Bounds of the exploration of the Gateway.
MaxReqs == 2          \* requests made to /ingest
MaxSendRetries == 1   \* sends the producer retries, all requests together

\* The connections to the server: the requests of one connection are handled
\* one after the other, those of two connections side by side.
Conns == {1, 2}

\* Instants (time.Time) are microseconds since the Unix epoch; the rows of the
\* consumer hold milliseconds.  ZeroTime is Go's zero time.Time, which decoding
\* leaves in a field the body does not carry.
MicrosPerMilli == 1000
ZeroTime == -1000000

\* The range of an int32 field of the consumer, scaled to 16 bits (the model
\* checker's integers are themselves 32 bits wide); the Gateway's int fields
\* are wider and hold every number below.
MaxInt32 == 32767
InInt32(n) == n >= 0 - MaxInt32 - 1 /\ n <= MaxInt32

\* strings.TrimSpace, on the strings of the model: only " " has outer space.
TrimSpace(str) == IF str = " " THEN "" ELSE str

\* randomHex(nBytes) in the handler of the r-th request: a fresh value each call.
randomHex(nBytes, r) == "hex" \o ToString(nBytes) \o "-" \o ToString(r)

\* The zero TelemetryEvent (var ev TelemetryEvent).
ZeroEvent ==
    [timestamp |-> ZeroTime, service |-> "", customer_id |-> "", endpoint |-> "",
     method |-> "", status_code |-> 0, latency_ms |-> 0, trace_id |-> "", error |-> "",
     attributes |-> {}, request_id |-> "", ingested_at |-> ZeroTime,
     schema_version |-> 0, environment |-> ""]

\* The fields of the smallest body that is accepted.
Sample ==
    [ZeroEvent EXCEPT !.service = "auth", !.customer_id = "c1", !.endpoint = "/x",
                      !.method = "GET", !.status_code = 200]

\* A request body: syntax is "ok" for one JSON value, "trailing" for one JSON
\* value followed by text that is not JSON, "malformed" when no JSON value
\* starts it; unknown says that the object has a key TelemetryEvent has not;
\* fields are the values of the keys it has (the zero value for an absent key).
Body(syn, unk, f) == [syntax |-> syn, unknown |-> unk, fields |-> f]

ValidBodies ==
    { Body("ok", FALSE, Sample),
      Body("ok", FALSE, [Sample EXCEPT !.timestamp = 1500, !.latency_ms = 12, !.trace_id = "t1",
                                       !.error = "boom", !.attributes = {<<"k", "v">>},
                                       !.request_id = "caller", !.ingested_at = 7000,
                                       !.schema_version = 9, !.environment = "prod"]),
      Body("ok", FALSE, [Sample EXCEPT !.customer_id = "c2", !.status_code = 40000, !.trace_id = " "]),
      Body("trailing", FALSE, Sample) }

InvalidBodies ==
    { Body("malformed", FALSE, ZeroEvent),
      Body("ok", TRUE, Sample),
      Body("ok", FALSE, [Sample EXCEPT !.service = ""]),
      Body("ok", FALSE, [Sample EXCEPT !.customer_id = " "]),
      Body("ok", FALSE, [Sample EXCEPT !.endpoint = ""]),
      Body("ok", FALSE, [Sample EXCEPT !.method = " "]),
      Body("ok", FALSE, [Sample EXCEPT !.status_code = 0]) }

\* The requests made to /ingest.
Requests ==
    [method : {"POST"}, body : ValidBodies \cup InvalidBodies]
        \cup [method : {"GET"}, body : {Body("ok", FALSE, Sample)}]

\* dec.Decode(&ev) with DisallowUnknownFields: Decode reads the first JSON value
\* of the body and does not look at what follows it.
Decode(b) ==
    IF b.syntax = "malformed" \/ b.unknown
    THEN [err |-> TRUE, ev |-> ZeroEvent]
    ELSE [err |-> FALSE, ev |-> b.fields]

\* Mutant: a schema_version the caller supplied is kept.
DefaultsKeepCaller(e, t) ==
    [e EXCEPT !.timestamp = IF e.timestamp = ZeroTime THEN t ELSE e.timestamp,
              !.ingested_at = t,
              !.schema_version = IF e.schema_version = 0 THEN 1 ELSE e.schema_version,
              !.environment = Env]

\* Lines 76-84: the defaults and the server-controlled fields.
Defaults(e, t) ==
    [e EXCEPT !.timestamp = IF e.timestamp = ZeroTime THEN t ELSE e.timestamp,
              !.ingested_at = t,
              !.schema_version = 1,
              !.environment = Env]

\* Lines 86-90: the required-field check.
MissingRequired(e) ==
    \/ TrimSpace(e.service) = ""
    \/ TrimSpace(e.customer_id) = ""
    \/ TrimSpace(e.endpoint) = ""
    \/ TrimSpace(e.method) = ""
    \/ e.status_code = 0

\* Lines 95-98: the identifiers.
Identify(e, r) ==
    [e EXCEPT !.trace_id = IF e.trace_id = "" THEN randomHex(16, r) ELSE e.trace_id,
              !.request_id = randomHex(12, r)]

\* time.Time's MarshalJSON: the RFC 3339 text of the instant, nanoseconds kept.
FormatTime(t) == [rfc3339 |-> TRUE, at |-> t]

\* json.Marshal(ev): the record value published.  A key with omitempty
\* (error, attributes) is left out when empty, which a reader decodes as empty.
Marshal(e) ==
    [syntax |-> "ok", timestamp |-> FormatTime(e.timestamp), service |-> e.service,
     customer_id |-> e.customer_id, endpoint |-> e.endpoint, method |-> e.method,
     status_code |-> e.status_code, latency_ms |-> e.latency_ms, trace_id |-> e.trace_id,
     error |-> e.error, attributes |-> e.attributes, request_id |-> e.request_id,
     ingested_at |-> FormatTime(e.ingested_at), schema_version |-> e.schema_version,
     environment |-> e.environment]

\* The default partitioner of the producer hashes the key of the message.
HashPartition(key) == IF key = "c1" THEN 1 ELSE 2

(***************************************************************************)
(* The writer-consumer.                                                    *)
(***************************************************************************)
\* The values a log record can carry, as far as parsing tells them apart.
MalformedMsg == [syntax |-> "malformed"]
TelemetryMsg ==
    Marshal([Sample EXCEPT !.timestamp = 1500, !.trace_id = "t1", !.request_id = "r1",
                           !.ingested_at = 2500, !.schema_version = 1, !.environment = Env])
MsgValues == {MalformedMsg, TelemetryMsg}

VARIABLES
    alive,        \* the process is running
    now,          \* time.Now(), in seconds
    claims,       \* the partitions the group assigns to this member
    sessions,     \* sessions started so far
    ctxDone,      \* the current session's context is cancelled
    pc,           \* thread -> position in its code
    consumed,     \* partition -> the record values read so far, in log order
    marked,       \* partition -> highest offset passed to MarkMessage
    tickC,        \* partition -> a tick is waiting in ticker.C
    nextTick,     \* partition -> when the ticker fires next
    events,       \* h.events
    lastFlush,    \* h.lastFlush
    objects,      \* the objects put in the bucket, in upload order
    tmpFile,      \* thread -> rows of the parquet file its flush wrote
    trigger,      \* thread -> what called the flush in progress
    flushErr,     \* thread -> what its last flush returned (Main: in this session)
    flushErrors,  \* flush errors logged so far
    pos,          \* partition -> offset of the last record delivered to the loop
    committed,    \* partition -> offset committed to the group coordinator
    bound,        \* the bounds of the exploration in force, fixed at the start
    failed        \* the last flush that failed: the buffer it left, and what called it

\* The ingestion-api (the Gateway): the handler of /ingest on each connection.
VARIABLES
    req,          \* connection -> the HTTP request to /ingest being handled
    hpc,          \* connection -> position of its handler
    ev,           \* connection -> the handler's ev
    handlerNow,   \* connection -> the handler's now (time.Now() at line 76)
    ctxExpired,   \* connection -> the deadline of the handler's ctx has passed
    retries,      \* connection -> sends the producer retried inside its SendMessage
    sendRet,      \* connection -> what SendMessage returned
    resp,         \* connection -> the response written
    sends,        \* connection -> calls of SendMessage made
    topic,        \* partition -> the records of the topic, in offset order
    clock,        \* the Gateway's clock, in ticks
    before,       \* <<c1, c2>>: c1's SendMessage returned before c2's was called
    served        \* requests received so far

consumerVars == <<alive, now, claims, sessions, ctxDone, pc, consumed, marked, tickC,
                  nextTick, events, lastFlush, objects, tmpFile, trigger, flushErr,
                  flushErrors, pos, committed, bound, failed>>

gatewayVars == <<req, hpc, ev, handlerNow, ctxExpired, retries, sendRet, resp, sends,
                 topic, clock, before, served>>

vars == <<consumerVars, gatewayVars>>

\* json.Unmarshal(b, &r) fails when b is not one JSON value or a number does
\* not fit its int32 field; keys rawEvent has not (request_id) are ignored.
UnmarshalFails(b) ==
    \/ b.syntax # "ok"
    \/ ~InInt32(b.status_code)
    \/ ~InInt32(b.latency_ms)
    \/ ~InInt32(b.schema_version)

\* time.Parse(time.RFC3339Nano, s), falling back to time.Now(), then UnixMilli().
ParseUnixMilli(str) == IF str.rfc3339 THEN str.at \div MicrosPerMilli ELSE now * 1000

\* parseKafkaJSON: the row (the consumer's TelemetryEvent) of a record value.
parseKafkaJSON(b) ==
    IF UnmarshalFails(b)
    THEN [err |-> TRUE]
    ELSE [err |-> FALSE,
          row |-> [timestamp |-> ParseUnixMilli(b.timestamp), service |-> b.service,
                   customer_id |-> b.customer_id, endpoint |-> b.endpoint,
                   method |-> b.method, status_code |-> b.status_code,
                   latency_ms |-> b.latency_ms, trace_id |-> b.trace_id,
                   error |-> b.error, environment |-> b.environment,
                   schema_version |-> b.schema_version,
                   ingested_at |-> ParseUnixMilli(b.ingested_at)]]

\* The offset of the record partition p's loop is handling: the last one
\* delivered to it.
Offset(p) == pos[p]

\* The event parsed from the record at offset i of partition p.
Event(p, i) == <<p, i>>

\* The bounds in force.
MsgBound == bound.msgs
TimeBound == bound.time
SessionBound == bound.sessions
FailureBound == bound.failures

\* The number of records read so far.
RECURSIVE Total(_)
Total(S) == IF S = {} THEN 0 ELSE LET p == CHOOSE q \in S : TRUE
                                  IN Len(consumed[p]) + Total(S \ {p})

\* time.Since(h.lastFlush)
Since == now - lastFlush

\* What flush's caller does when flush returns: a loop goes back to its select;
\* Cleanup returns to the session, which releases the claims and ends Consume.
Return(t, err) ==
    /\ flushErr' = [flushErr EXCEPT ![t] = err]
    /\ flushErrors' = IF err = "nil" THEN flushErrors ELSE flushErrors + 1
    /\ failed' = IF err = "nil" THEN failed ELSE [rows |-> events, by |-> trigger[t]]
    /\ tmpFile' = [tmpFile EXCEPT ![t] = <<>>]
    /\ trigger' = [trigger EXCEPT ![t] = "none"]
    /\ pc' = [pc EXCEPT ![t] = IF t = Main THEN "consume" ELSE "select"]
    /\ ctxDone' = IF t = Main THEN FALSE ELSE ctxDone

\* The Gateway before any request: an empty topic, no handler running.
NoRequest == [method |-> "", body |-> Body("malformed", FALSE, ZeroEvent)]
NoReturn == [err |-> FALSE, partition |-> 0 - 1, offset |-> 0 - 1]
NoResponse == [code |-> 0]

GatewayInit ==
    /\ req = [r \in Conns |-> NoRequest]
    /\ hpc = [r \in Conns |-> "idle"]
    /\ ev = [r \in Conns |-> ZeroEvent]
    /\ handlerNow = [r \in Conns |-> ZeroTime]
    /\ ctxExpired = [r \in Conns |-> FALSE]
    /\ retries = [r \in Conns |-> 0]
    /\ sendRet = [r \in Conns |-> NoReturn]
    /\ resp = [r \in Conns |-> NoResponse]
    /\ sends = [r \in Conns |-> 0]
    /\ topic = [p \in Partitions |-> <<>>]
    /\ clock = 1
    /\ before = {}
    /\ served = 0

\* No flush has failed.
NoFailure == [rows |-> <<>>, by |-> "none"]

TypeOK ==
    /\ alive \in BOOLEAN
    /\ now \in 0..MaxTime
    /\ claims \subseteq Partitions
    /\ sessions \in 0..MaxSessions
    /\ ctxDone \in BOOLEAN
    /\ \A p \in Partitions : Len(consumed[p]) <= MaxMsgs /\ marked[p] \in 0..MaxMsgs
    /\ lastFlush \in 0..MaxTime
    /\ flushErrors \in 0..MaxFailures

InitWith(c, b) ==
    /\ bound = b
    /\ alive = TRUE
    /\ now = 0
    /\ claims = c
    /\ sessions = 0
    /\ ctxDone = FALSE
    /\ pc = [t \in Threads |-> IF t = Main THEN "consume" ELSE "idle"]
    /\ consumed = [p \in Partitions |-> <<>>]
    /\ marked = [p \in Partitions |-> 0]
    /\ tickC = [p \in Partitions |-> FALSE]
    /\ nextTick = [p \in Partitions |-> 0]
    /\ events = <<>>
    /\ lastFlush = 0
    /\ objects = <<>>
    /\ tmpFile = [t \in Threads |-> <<>>]
    /\ trigger = [t \in Threads |-> "none"]
    /\ flushErr = [t \in Threads |-> "none"]
    /\ flushErrors = 0
    /\ pos = [p \in Partitions |-> 0]
    /\ committed = [p \in Partitions |-> 0]
    /\ failed = NoFailure
    /\ GatewayInit

\* NewWriterHandler, with one partition claimed.
Init == InitWith({1}, [msgs |-> MaxMsgs, time |-> MaxTime, sessions |-> MaxSessions, failures |-> MaxFailures])

\* NewWriterHandler, with two partitions claimed by the one member.
InitMulti ==
    InitWith(Partitions, [msgs |-> MaxMsgsMulti, time |-> MaxTimeMulti, sessions |-> MaxSessionsMulti,
                          failures |-> MaxFailuresMulti])

\* NewWriterHandler, with one partition claimed, for the runs with restarts.
InitCrash ==
    InitWith({1}, [msgs |-> MaxMsgsCrash, time |-> MaxTimeCrash, sessions |-> MaxSessionsCrash,
                   failures |-> MaxFailuresCrash])

\* Mutant: Setup starts the session with an empty buffer.
SetupResetsBuffer ==
    /\ alive /\ pc[Main] = "consume" /\ sessions < SessionBound
    /\ sessions' = sessions + 1
    /\ lastFlush' = now
    /\ events' = <<>>
    /\ pc' = [t \in Threads |-> IF t = Main THEN "session"
                                ELSE IF t \in claims THEN "start" ELSE pc[t]]
    /\ flushErr' = [flushErr EXCEPT ![Main] = "none"]
    /\ UNCHANGED <<gatewayVars, failed, bound, pos, committed, alive, now, claims, ctxDone, consumed, marked, tickC, nextTick,
                   objects, tmpFile, trigger, flushErrors>>

\* main's for loop calls Consume; the session calls Setup before it starts the
\* ConsumeClaim goroutines, one for each claim.
Setup ==
    /\ alive /\ pc[Main] = "consume" /\ sessions < SessionBound
    /\ sessions' = sessions + 1
    /\ lastFlush' = now
    /\ pc' = [t \in Threads |-> IF t = Main THEN "session"
                                ELSE IF t \in claims THEN "start" ELSE pc[t]]
    /\ flushErr' = [flushErr EXCEPT ![Main] = "none"]
    /\ UNCHANGED <<gatewayVars, failed, bound, pos, committed, alive, now, claims, ctxDone, consumed, marked, tickC, nextTick,
                   events, objects, tmpFile, trigger, flushErrors>>

\* ConsumeClaim starts: time.NewTicker(FlushEverySecs).
StartClaim(p) ==
    /\ alive /\ pc[p] = "start"
    /\ nextTick' = [nextTick EXCEPT ![p] = now + FlushEverySecs]
    /\ tickC' = [tickC EXCEPT ![p] = FALSE]
    /\ pc' = [pc EXCEPT ![p] = "select"]
    /\ UNCHANGED <<gatewayVars, failed, bound, pos, committed, alive, now, claims, sessions, ctxDone, consumed, marked, events,
                   lastFlush, objects, tmpFile, trigger, flushErr, flushErrors>>

\* The ticker of partition p's loop is running.
Ticking(p) == pc[p] \notin {"idle", "start", "returned"}

\* A second passes.  A running ticker whose period has elapsed puts a tick in
\* its channel (of capacity 1: a tick that finds one waiting is dropped).
Advance ==
    /\ alive /\ now < TimeBound
    /\ now' = now + 1
    /\ tickC' = [p \in Partitions |->
                   tickC[p] \/ (Ticking(p) /\ now + 1 >= nextTick[p])]
    /\ nextTick' = [p \in Partitions |->
                      IF Ticking(p) /\ now + 1 >= nextTick[p]
                      THEN nextTick[p] + FlushEverySecs ELSE nextTick[p]]
    /\ UNCHANGED <<gatewayVars, failed, bound, pos, committed, alive, claims, sessions, ctxDone, pc, consumed, marked, events,
                   lastFlush, objects, tmpFile, trigger, flushErr, flushErrors>>

\* Mutant: the loop goes on receiving while the upload of a flush is under way.
RecvDuringFlush(p) ==
    /\ alive /\ pc[p] \in {"select", "upload"}
    /\ \/ /\ pos[p] < Len(consumed[p])
          /\ UNCHANGED consumed
       \/ /\ pos[p] = Len(consumed[p]) /\ Total(Partitions) < MsgBound
          /\ \E b \in MsgValues : consumed' = [consumed EXCEPT ![p] = Append(@, b)]
    /\ pos' = [pos EXCEPT ![p] = @ + 1]
    /\ pc' = [pc EXCEPT ![p] = IF parseKafkaJSON(consumed'[p][pos'[p]]).err
                               THEN "skip" ELSE "append"]
    /\ UNCHANGED <<gatewayVars, failed, bound, committed, alive, now, claims, sessions, ctxDone, marked, tickC, nextTick,
                   events, lastFlush, objects, tmpFile, trigger, flushErr, flushErrors>>

\* case msg, ok := <-claim.Messages(): the next record of the partition arrives
\* and is parsed.  It is the record after the last one delivered: a record of
\* the log this member has not read before, or (after a restart) one it has.
Recv(p) ==
    /\ alive /\ pc[p] = "select"
    /\ \/ /\ pos[p] < Len(consumed[p])
          /\ UNCHANGED consumed
       \/ /\ pos[p] = Len(consumed[p]) /\ Total(Partitions) < MsgBound
          /\ \E b \in MsgValues : consumed' = [consumed EXCEPT ![p] = Append(@, b)]
    /\ pos' = [pos EXCEPT ![p] = @ + 1]
    /\ pc' = [pc EXCEPT ![p] = IF parseKafkaJSON(consumed'[p][pos'[p]]).err
                               THEN "skip" ELSE "append"]
    /\ UNCHANGED <<gatewayVars, failed, bound, committed, alive, now, claims, sessions, ctxDone, marked, tickC, nextTick,
                   events, lastFlush, objects, tmpFile, trigger, flushErr, flushErrors>>

\* Mutant: a record that does not parse is not marked.
SkipUnmarked(p) ==
    /\ alive /\ pc[p] = "skip"
    /\ pc' = [pc EXCEPT ![p] = "select"]
    /\ UNCHANGED <<gatewayVars, failed, bound, pos, committed, alive, now, claims, sessions, ctxDone, consumed, marked, tickC, nextTick,
                   events, lastFlush, objects, tmpFile, trigger, flushErr, flushErrors>>

\* Parse error: log, sess.MarkMessage(msg, ""), continue.
Skip(p) ==
    /\ alive /\ pc[p] = "skip"
    /\ marked' = [marked EXCEPT ![p] = Offset(p)]
    /\ pc' = [pc EXCEPT ![p] = "select"]
    /\ UNCHANGED <<gatewayVars, failed, bound, pos, committed, alive, now, claims, sessions, ctxDone, consumed, tickC, nextTick,
                   events, lastFlush, objects, tmpFile, trigger, flushErr, flushErrors>>

\* Mutant: the event is put at the head of the buffer.
AppendEventFirst(p) ==
    /\ alive /\ pc[p] = "append"
    /\ events' = <<Event(p, Offset(p))>> \o events
    /\ pc' = [pc EXCEPT ![p] = "mark"]
    /\ UNCHANGED <<gatewayVars, failed, bound, pos, committed, alive, now, claims, sessions, ctxDone, consumed, marked, tickC,
                   nextTick, lastFlush, objects, tmpFile, trigger, flushErr, flushErrors>>

\* h.events = append(h.events, ev)
AppendEvent(p) ==
    /\ alive /\ pc[p] = "append"
    /\ events' = Append(events, Event(p, Offset(p)))
    /\ pc' = [pc EXCEPT ![p] = "mark"]
    /\ UNCHANGED <<gatewayVars, failed, bound, pos, committed, alive, now, claims, sessions, ctxDone, consumed, marked, tickC,
                   nextTick, lastFlush, objects, tmpFile, trigger, flushErr, flushErrors>>

\* Mutant: the position is not marked before the flush.
MarkDeferred(p) ==
    /\ alive /\ pc[p] = "mark"
    /\ pc' = [pc EXCEPT ![p] = "check"]
    /\ UNCHANGED <<gatewayVars, failed, bound, pos, committed, alive, now, claims, sessions, ctxDone, consumed, marked, tickC, nextTick,
                   events, lastFlush, objects, tmpFile, trigger, flushErr, flushErrors>>

\* sess.MarkMessage(msg, "")
Mark(p) ==
    /\ alive /\ pc[p] = "mark"
    /\ marked' = [marked EXCEPT ![p] = Offset(p)]
    /\ pc' = [pc EXCEPT ![p] = "check"]
    /\ UNCHANGED <<gatewayVars, failed, bound, pos, committed, alive, now, claims, sessions, ctxDone, consumed, tickC, nextTick,
                   events, lastFlush, objects, tmpFile, trigger, flushErr, flushErrors>>

\* Mutant: the size check is off by one.
CheckSizeStrict(p) ==
    /\ alive /\ pc[p] = "check"
    /\ IF Len(events) > FlushEveryN
       THEN /\ pc' = [pc EXCEPT ![p] = "flush"]
            /\ trigger' = [trigger EXCEPT ![p] = "size"]
       ELSE /\ pc' = [pc EXCEPT ![p] = "select"]
            /\ UNCHANGED trigger
    /\ UNCHANGED <<gatewayVars, failed, bound, pos, committed, alive, now, claims, sessions, ctxDone, consumed, marked, tickC,
                   nextTick, events, lastFlush, objects, tmpFile, flushErr, flushErrors>>

\* Mutant: the size check fires one event early.
CheckSizeEarly(p) ==
    /\ alive /\ pc[p] = "check"
    /\ IF Len(events) + 1 >= FlushEveryN
       THEN /\ pc' = [pc EXCEPT ![p] = "flush"]
            /\ trigger' = [trigger EXCEPT ![p] = "size"]
       ELSE /\ pc' = [pc EXCEPT ![p] = "select"]
            /\ UNCHANGED trigger
    /\ UNCHANGED <<gatewayVars, failed, bound, pos, committed, alive, now, claims, sessions, ctxDone, consumed, marked, tickC,
                   nextTick, events, lastFlush, objects, tmpFile, flushErr, flushErrors>>

\* if len(h.events) >= h.cfg.FlushEveryN { h.flush(...) }
CheckSize(p) ==
    /\ alive /\ pc[p] = "check"
    /\ IF Len(events) >= FlushEveryN
       THEN /\ pc' = [pc EXCEPT ![p] = "flush"]
            /\ trigger' = [trigger EXCEPT ![p] = "size"]
       ELSE /\ pc' = [pc EXCEPT ![p] = "select"]
            /\ UNCHANGED trigger
    /\ UNCHANGED <<gatewayVars, failed, bound, pos, committed, alive, now, claims, sessions, ctxDone, consumed, marked, tickC,
                   nextTick, events, lastFlush, objects, tmpFile, flushErr, flushErrors>>

\* Mutant: the tick flushes without waiting for the period to elapse.
TickTooEarly(p) ==
    /\ alive /\ pc[p] = "select" /\ tickC[p]
    /\ tickC' = [tickC EXCEPT ![p] = FALSE]
    /\ IF Len(events) > 0
       THEN /\ pc' = [pc EXCEPT ![p] = "flush"]
            /\ trigger' = [trigger EXCEPT ![p] = "timer"]
       ELSE UNCHANGED <<pc, trigger>>
    /\ UNCHANGED <<gatewayVars, failed, bound, pos, committed, alive, now, claims, sessions, ctxDone, consumed, marked, nextTick,
                   events, lastFlush, objects, tmpFile, flushErr, flushErrors>>

\* Mutant: the tick case flushes full batches only.
TickNeedsFullBatch(p) ==
    /\ alive /\ pc[p] = "select" /\ tickC[p]
    /\ tickC' = [tickC EXCEPT ![p] = FALSE]
    /\ IF Since >= FlushEverySecs /\ Len(events) >= FlushEveryN
       THEN /\ pc' = [pc EXCEPT ![p] = "flush"]
            /\ trigger' = [trigger EXCEPT ![p] = "timer"]
       ELSE UNCHANGED <<pc, trigger>>
    /\ UNCHANGED <<gatewayVars, failed, bound, pos, committed, alive, now, claims, sessions, ctxDone, consumed, marked, nextTick,
                   events, lastFlush, objects, tmpFile, flushErr, flushErrors>>

\* case <-ticker.C: if time.Since(h.lastFlush) >= FlushEverySecs && len(h.events) > 0
Tick(p) ==
    /\ alive /\ pc[p] = "select" /\ tickC[p]
    /\ tickC' = [tickC EXCEPT ![p] = FALSE]
    /\ IF Since >= FlushEverySecs /\ Len(events) > 0
       THEN /\ pc' = [pc EXCEPT ![p] = "flush"]
            /\ trigger' = [trigger EXCEPT ![p] = "timer"]
       ELSE UNCHANGED <<pc, trigger>>
    /\ UNCHANGED <<gatewayVars, failed, bound, pos, committed, alive, now, claims, sessions, ctxDone, consumed, marked, nextTick,
                   events, lastFlush, objects, tmpFile, flushErr, flushErrors>>

\* case <-sess.Context().Done() (or the closed Messages channel): return nil,
\* and the deferred ticker.Stop().
Done(p) ==
    /\ alive /\ pc[p] = "select" /\ ctxDone
    /\ pc' = [pc EXCEPT ![p] = "returned"]
    /\ tickC' = [tickC EXCEPT ![p] = FALSE]
    /\ UNCHANGED <<gatewayVars, failed, bound, pos, committed, alive, now, claims, sessions, ctxDone, consumed, marked, nextTick,
                   events, lastFlush, objects, tmpFile, trigger, flushErr, flushErrors>>

\* Mutant: flush has no empty check.
FlushEncodeNoEmptyCheck(t) ==
    /\ alive /\ pc[t] = "flush"
    /\ \/ /\ tmpFile' = [tmpFile EXCEPT ![t] = events]
          /\ pc' = [pc EXCEPT ![t] = "upload"]
          /\ UNCHANGED <<ctxDone, trigger, flushErr, flushErrors, failed>>
       \/ /\ flushErrors < FailureBound
          /\ Return(t, "write parquet")
    /\ UNCHANGED <<gatewayVars, bound, pos, committed, alive, now, claims, sessions, consumed, marked, tickC, nextTick,
                   events, lastFlush, objects>>

\* flush, first half: the empty check, then writeParquet(tmpFile, h.events),
\* which writes every row or fails.
FlushEncode(t) ==
    /\ alive /\ pc[t] = "flush"
    /\ \/ /\ Len(events) = 0
          /\ Return(t, "nil")
       \/ /\ Len(events) # 0
          /\ tmpFile' = [tmpFile EXCEPT ![t] = events]
          /\ pc' = [pc EXCEPT ![t] = "upload"]
          /\ UNCHANGED <<ctxDone, trigger, flushErr, flushErrors, failed>>
       \/ /\ Len(events) # 0 /\ flushErrors < FailureBound
          /\ Return(t, "write parquet")
    /\ UNCHANGED <<gatewayVars, bound, pos, committed, alive, now, claims, sessions, consumed, marked, tickC, nextTick,
                   events, lastFlush, objects>>

\* Mutant: the buffer is cleared before the upload is known to have succeeded.
PutFailsDropsBuffer(t) ==
    /\ flushErrors < FailureBound
    /\ \E e \in {"stat", "upload to minio"} : Return(t, e)
    /\ events' = <<>>
    /\ UNCHANGED <<lastFlush, objects>>

\* Mutant: flush tries again at once when the upload fails.
PutFailsRetries(t) ==
    /\ flushErrors < FailureBound
    /\ \E e \in {"stat", "upload to minio"} : flushErr' = [flushErr EXCEPT ![t] = e]
    /\ flushErrors' = flushErrors + 1
    /\ failed' = [rows |-> events, by |-> trigger[t]]
    /\ tmpFile' = [tmpFile EXCEPT ![t] = <<>>]
    /\ pc' = [pc EXCEPT ![t] = "flush"]
    /\ UNCHANGED <<ctxDone, trigger, events, lastFlush, objects>>

\* flush, second half, failing: os.Stat, os.Open or PutObject returns an error
\* and flush returns it; no object is put.
PutFails(t) ==
    /\ flushErrors < FailureBound
    /\ \E e \in {"stat", "upload to minio"} : Return(t, e)
    /\ UNCHANGED <<events, lastFlush, objects>>

\* Mutant: the buffer is not cleared after the upload.
PutSucceedsKeepsBuffer(t) ==
    /\ objects' = Append(objects, [rows |-> tmpFile[t], by |-> trigger[t]])
    /\ events' = events
    /\ lastFlush' = now
    /\ Return(t, "nil")

\* Mutant: the last-flush time is not reset after the upload.
PutSucceedsKeepsTimer(t) ==
    /\ objects' = Append(objects, [rows |-> tmpFile[t], by |-> trigger[t]])
    /\ events' = <<>>
    /\ lastFlush' = lastFlush
    /\ Return(t, "nil")

\* flush, second half, succeeding: PutObject puts the file under a fresh key,
\* then h.events = h.events[:0]; h.lastFlush = time.Now(); return nil.
PutSucceeds(t) ==
    /\ objects' = Append(objects, [rows |-> tmpFile[t], by |-> trigger[t]])
    /\ events' = <<>>
    /\ lastFlush' = now
    /\ Return(t, "nil")

FlushUpload(t) ==
    /\ alive /\ pc[t] = "upload"
    /\ (PutFails(t) \/ PutSucceeds(t))
    /\ UNCHANGED <<gatewayVars, bound, pos, committed, alive, now, claims, sessions, consumed, marked, tickC, nextTick>>

\* The session ends (a rebalance, a lost heartbeat): its context is cancelled.
Rebalance ==
    /\ alive /\ pc[Main] = "session" /\ ~ctxDone
    /\ ctxDone' = TRUE
    /\ UNCHANGED <<gatewayVars, failed, bound, pos, committed, alive, now, claims, sessions, pc, consumed, marked, tickC, nextTick,
                   events, lastFlush, objects, tmpFile, trigger, flushErr, flushErrors>>

\* Every ConsumeClaim has returned: the session calls Cleanup, which calls
\* flush; when Cleanup returns the claims are released and Consume returns.
Cleanup ==
    /\ alive /\ pc[Main] = "session" /\ ctxDone
    /\ \A p \in claims : pc[p] = "returned"
    /\ pc' = [pc EXCEPT ![Main] = "flush"]
    /\ trigger' = [trigger EXCEPT ![Main] = "cleanup"]
    /\ UNCHANGED <<gatewayVars, failed, bound, pos, committed, alive, now, claims, sessions, ctxDone, consumed, marked, tickC,
                   nextTick, events, lastFlush, objects, tmpFile, flushErr, flushErrors>>

\* The process gets SIGINT or SIGTERM: main installs no handler, so the Go
\* runtime ends the process where it stands.
Signal ==
    /\ alive
    /\ alive' = FALSE
    /\ UNCHANGED <<gatewayVars, failed, bound, pos, committed, now, claims, sessions, ctxDone, pc, consumed, marked, tickC,
                   nextTick, events, lastFlush, objects, tmpFile, trigger, flushErr,
                   flushErrors>>

Next ==
    \/ Setup
    \/ \E p \in claims : StartClaim(p)
    \/ Advance
    \/ \E p \in claims : Recv(p)
    \/ \E p \in claims : Skip(p)
    \/ \E p \in claims : AppendEvent(p)
    \/ \E p \in claims : Mark(p)
    \/ \E p \in claims : CheckSize(p)
    \/ \E p \in claims : Tick(p)
    \/ \E p \in claims : Done(p)
    \/ \E t \in claims \cup {Main} : FlushEncode(t)
    \/ \E t \in claims \cup {Main} : FlushUpload(t)
    \/ Rebalance
    \/ Cleanup
    \/ Signal

\* One partition claimed.
Spec == Init /\ [][Next]_vars

\* Two partitions claimed: two ConsumeClaim goroutines share the handler.
SpecMulti == InitMulti /\ [][Next]_vars

\* The consumer group commits the marked offsets of partition p (sarama's
\* auto-commit, Consumer.Offsets.AutoCommit, on by default in sarama.NewConfig).
Commit(p) ==
    /\ alive /\ committed[p] < marked[p]
    /\ committed' = [committed EXCEPT ![p] = marked[p]]
    /\ UNCHANGED <<gatewayVars, failed, bound, pos, alive, now, claims, sessions, ctxDone, pc, consumed, marked, tickC,
                   nextTick, events, lastFlush, objects, tmpFile, trigger, flushErr,
                   flushErrors>>

\* Mutant: the restarted consumer reads its partitions from the start.
RestartRereads ==
    /\ ~alive
    /\ alive' = TRUE
    /\ ctxDone' = FALSE
    /\ pc' = [t \in Threads |-> IF t = Main THEN "consume" ELSE "idle"]
    /\ pos' = [p \in Partitions |-> 0]
    /\ marked' = [p \in Partitions |-> 0]
    /\ tickC' = [p \in Partitions |-> FALSE]
    /\ events' = <<>>
    /\ lastFlush' = now
    /\ tmpFile' = [t \in Threads |-> <<>>]
    /\ trigger' = [t \in Threads |-> "none"]
    /\ flushErr' = [t \in Threads |-> "none"]
    /\ failed' = NoFailure
    /\ UNCHANGED <<gatewayVars, bound, committed, now, claims, sessions, consumed, nextTick, objects, flushErrors>>

\* The process is started again after it ended: main makes a new handler, with
\* an empty buffer, and the group (same KAFKA_GROUP) delivers each partition
\* from the record after its committed offset.  The log, the committed offsets
\* and the bucket are what outlives the process.
Restart ==
    /\ ~alive
    /\ alive' = TRUE
    /\ ctxDone' = FALSE
    /\ pc' = [t \in Threads |-> IF t = Main THEN "consume" ELSE "idle"]
    /\ pos' = committed
    /\ marked' = committed
    /\ tickC' = [p \in Partitions |-> FALSE]
    /\ events' = <<>>
    /\ lastFlush' = now
    /\ tmpFile' = [t \in Threads |-> <<>>]
    /\ trigger' = [t \in Threads |-> "none"]
    /\ flushErr' = [t \in Threads |-> "none"]
    /\ failed' = NoFailure
    /\ UNCHANGED <<gatewayVars, bound, committed, now, claims, sessions, consumed, nextTick, objects, flushErrors>>

NextCrash ==
    \/ Next
    \/ \E p \in claims : Commit(p)
    \/ Restart

\* One partition claimed; offsets are committed, and the process is restarted
\* after it ends.
SpecCrash == InitCrash /\ [][NextCrash]_vars

(***************************************************************************)
(* The writer-consumer left to run for ever: no signal ends the process,   *)
(* time goes on and main's loop starts session after session.              *)
(***************************************************************************)
\* NewWriterHandler, with one partition claimed, for the runs without end.
InitLive ==
    InitWith({1}, [msgs |-> MaxMsgsLive, time |-> MaxTimeLive, sessions |-> MaxSessionsLive,
                   failures |-> MaxFailuresLive])

\* An instant, one second further from the origin of the clock.
Shift(n, s) == IF n >= s THEN n - s ELSE 0

\* A second passes, as in Advance.  Only the distances between now, the
\* last-flush time and the next tick matter to the program, so when the clock
\* is at its bound the origin moves by one second instead: a last-flush time
\* the origin overtakes stays at the origin, at least FlushEverySecs ago.
AdvanceLive ==
    /\ alive
    /\ LET s == IF now < TimeBound THEN 0 ELSE 1
           fire(p) == Ticking(p) /\ now + 1 >= nextTick[p]
       IN /\ now' = now + 1 - s
          /\ lastFlush' = Shift(lastFlush, s)
          /\ tickC' = [p \in Partitions |-> tickC[p] \/ fire(p)]
          /\ nextTick' = [p \in Partitions |->
                            Shift(IF fire(p) THEN nextTick[p] + FlushEverySecs
                                  ELSE nextTick[p], s)]
    /\ UNCHANGED <<gatewayVars, failed, bound, pos, committed, alive, claims, sessions, ctxDone, pc, consumed, marked,
                   events, objects, tmpFile, trigger, flushErr, flushErrors>>

\* main's for loop calls Consume again, however many sessions there were
\* (they are counted up to the bound).
SetupLive ==
    /\ alive /\ pc[Main] = "consume"
    /\ sessions' = IF sessions < SessionBound THEN sessions + 1 ELSE sessions
    /\ lastFlush' = now
    /\ pc' = [t \in Threads |-> IF t = Main THEN "session"
                                ELSE IF t \in claims THEN "start" ELSE pc[t]]
    /\ flushErr' = [flushErr EXCEPT ![Main] = "none"]
    /\ UNCHANGED <<gatewayVars, failed, bound, pos, committed, alive, now, claims, ctxDone, consumed, marked, tickC, nextTick,
                   events, objects, tmpFile, trigger, flushErrors>>

NextLive ==
    \/ SetupLive
    \/ \E p \in claims : StartClaim(p)
    \/ AdvanceLive
    \/ \E p \in claims : Recv(p)
    \/ \E p \in claims : Skip(p)
    \/ \E p \in claims : AppendEvent(p)
    \/ \E p \in claims : Mark(p)
    \/ \E p \in claims : CheckSize(p)
    \/ \E p \in claims : Tick(p)
    \/ \E p \in claims : Done(p)
    \/ \E t \in claims \cup {Main} : FlushEncode(t)
    \/ \E t \in claims \cup {Main} : FlushUpload(t)
    \/ Rebalance
    \/ Cleanup

\* Time passes; the goroutines of the loop and of the session take their next
\* step; a tick that stays in the channel is taken; main calls Consume again.
\* Uploads fail at most FailureBound times, so they do not fail for ever.
Fairness ==
    /\ WF_vars(AdvanceLive)
    /\ WF_vars(SetupLive)
    /\ WF_vars(Cleanup)
    /\ \A p \in Partitions :
          /\ WF_vars(StartClaim(p)) /\ WF_vars(Skip(p)) /\ WF_vars(AppendEvent(p))
          /\ WF_vars(Mark(p)) /\ WF_vars(CheckSize(p))
          /\ WF_vars(Tick(p)) /\ WF_vars(Done(p))
    /\ \A t \in Threads : WF_vars(FlushEncode(t)) /\ WF_vars(FlushUpload(t))

SpecLive == InitLive /\ [][NextLive]_vars /\ Fairness

(***************************************************************************)
(* The Gateway: the handler of /ingest, one invocation at a time on each    *)
(* connection.                                                             *)
(***************************************************************************)
\* time.Now().UTC(): the clock counts half milliseconds.
Now == clock * (MicrosPerMilli \div 2)

\* The sends retried so far.
RECURSIVE TotalRetries(_)
TotalRetries(S) == IF S = {} THEN 0 ELSE LET c == CHOOSE q \in S : TRUE
                                         IN retries[c] + TotalRetries(S \ {c})

\* The next request arrives on connection c, whose handler is not running:
\* the handler starts with its own ctx and a zero ev.
Arrive(c, q) ==
    /\ hpc[c] \in {"idle", "done"} /\ served < MaxReqs
    /\ (IF c = 1 THEN TRUE ELSE hpc[1] # "idle")
    /\ served' = served + 1
    /\ req' = [req EXCEPT ![c] = q]
    /\ ctxExpired' = [ctxExpired EXCEPT ![c] = FALSE]
    /\ retries' = [retries EXCEPT ![c] = 0]
    /\ sendRet' = [sendRet EXCEPT ![c] = NoReturn]
    /\ sends' = [sends EXCEPT ![c] = 0]
    /\ before' = {pr \in before : pr[1] # c /\ pr[2] # c}
    /\ UNCHANGED <<consumerVars, topic>>

\* http.Error(w, ..., code); return
Reject(c, code, e) ==
    /\ resp' = [resp EXCEPT ![c] = [code |-> code]]
    /\ hpc' = [hpc EXCEPT ![c] = "done"]
    /\ ev' = [ev EXCEPT ![c] = e]

\* Lines 67-116 for the body of request q, the served'th request: Decode, the
\* defaults, the required-field check, the identifiers and json.Marshal,
\* which touch nothing but the handler's own ev.
Validate(c, q) ==
    LET d == Decode(q.body)
        e == Defaults(d.ev, Now)
    IN IF d.err
       THEN /\ Reject(c, 400, ZeroEvent)
            /\ handlerNow' = [handlerNow EXCEPT ![c] = ZeroTime]
            /\ UNCHANGED clock
       ELSE /\ handlerNow' = [handlerNow EXCEPT ![c] = Now]
            /\ clock' = clock + 1
            /\ IF MissingRequired(e)
               THEN Reject(c, 400, e)
               ELSE /\ ev' = [ev EXCEPT ![c] = Identify(e, served')]
                    /\ hpc' = [hpc EXCEPT ![c] = "publish"]
                    /\ resp' = [resp EXCEPT ![c] = NoResponse]

\* Mutant: the method of the request is not looked at.
IngestAnyMethod(c) == \E q \in Requests : Arrive(c, q) /\ Validate(c, q)

\* A request arrives and its handler runs to the call of SendMessage.
Ingest(c) ==
    \E q \in Requests :
        /\ Arrive(c, q)
        /\ IF q.method # "POST"
           THEN /\ Reject(c, 405, ZeroEvent)
                /\ handlerNow' = [handlerNow EXCEPT ![c] = ZeroTime]
                /\ UNCHANGED clock
           ELSE Validate(c, q)

\* The deadline of ctx (3 seconds after the handler started) passes while the
\* handler is between the creation of ctx and its select on ctx.Done().
Expire(c) ==
    /\ hpc[c] \in {"publish", "sending", "sent"} /\ ~ctxExpired[c]
    /\ ctxExpired' = [ctxExpired EXCEPT ![c] = TRUE]
    /\ UNCHANGED <<consumerVars, served, req, hpc, ev, handlerNow, retries, sendRet, resp, sends, topic,
                   clock, before>>

\* Mutant: ctx.Done() is looked at before the publish instead of after it.
SendMessageUnlessExpired(c) ==
    /\ hpc[c] = "publish"
    /\ IF ctxExpired[c]
       THEN /\ Reject(c, 504, ev[c])
            /\ UNCHANGED <<sends, before>>
       ELSE /\ sends' = [sends EXCEPT ![c] = @ + 1]
            /\ hpc' = [hpc EXCEPT ![c] = "sending"]
            /\ before' = before \cup {<<q, c>> : q \in {x \in Conns : hpc[x] \in {"sent", "done"} /\ sends[x] = 1}}
            /\ UNCHANGED <<resp, ev>>
    /\ UNCHANGED <<consumerVars, served, req, handlerNow, ctxExpired, retries, sendRet, topic, clock>>

\* The handler calls s.producer.SendMessage(msg), which takes no context.
SendMessage(c) ==
    /\ hpc[c] = "publish"
    /\ sends' = [sends EXCEPT ![c] = @ + 1]
    /\ hpc' = [hpc EXCEPT ![c] = "sending"]
    /\ before' = before \cup {<<q, c>> : q \in {x \in Conns : hpc[x] \in {"sent", "done"} /\ sends[x] = 1}}
    /\ UNCHANGED <<consumerVars, served, req, ev, handlerNow, ctxExpired, retries, sendRet, resp, topic, clock>>

\* Inside SendMessage a send fails with a retriable error and the producer,
\* which is idempotent and keeps one request in flight, sends it again.
SendRetry(c) ==
    /\ hpc[c] = "sending"
    /\ retries[c] < RetryMax /\ TotalRetries(Conns) < MaxSendRetries
    /\ retries' = [retries EXCEPT ![c] = @ + 1]
    /\ UNCHANGED <<consumerVars, served, req, hpc, ev, handlerNow, ctxExpired, sendRet, resp, sends, topic,
                   clock, before>>

\* The log appends the record to the partition of its key and SendMessage
\* returns that partition and the offset of the record.
Produce(c, p) ==
    /\ hpc[c] = "sending"
    /\ topic' = [topic EXCEPT ![p] = Append(@, Marshal(ev[c]))]
    /\ sendRet' = [sendRet EXCEPT ![c] = [err |-> FALSE, partition |-> p, offset |-> Len(topic[p])]]
    /\ hpc' = [hpc EXCEPT ![c] = "sent"]
    /\ UNCHANGED <<consumerVars, served, req, ev, handlerNow, ctxExpired, retries, resp, sends, clock, before>>

\* Mutant: the message has no key, so the partitioner picks any partition.
SendOkUnkeyed(c) == \E p \in Partitions : Produce(c, p)

\* The key of the message is ev.CustomerID.
SendOk(c) == Produce(c, HashPartition(ev[c].customer_id))

\* SendMessage gives up (an error that is not retriable, or the retries are
\* used up): the record is not in the log and an error is returned.
SendFail(c) ==
    /\ hpc[c] = "sending"
    /\ sendRet' = [sendRet EXCEPT ![c] = [err |-> TRUE, partition |-> 0 - 1, offset |-> 0 - 1]]
    /\ hpc' = [hpc EXCEPT ![c] = "sent"]
    /\ UNCHANGED <<consumerVars, served, req, ev, handlerNow, ctxExpired, retries, resp, sends, topic, clock,
                   before>>

\* The 202 response.
Accepted(c, offset) ==
    [code |-> 202, partition |-> sendRet[c].partition, offset |-> offset,
     trace_id |-> ev[c].trace_id, request_id |-> ev[c].request_id]

\* Mutant: the response reports the offset after the record.
RespondNextOffset(c) ==
    /\ hpc[c] = "sent"
    /\ resp' = [resp EXCEPT ![c] = IF sendRet[c].err THEN [code |-> 502]
                                   ELSE IF ctxExpired[c] THEN [code |-> 504]
                                   ELSE Accepted(c, sendRet[c].offset + 1)]
    /\ hpc' = [hpc EXCEPT ![c] = "done"]
    /\ retries' = [retries EXCEPT ![c] = 0]
    /\ UNCHANGED <<consumerVars, served, req, ev, handlerNow, ctxExpired, sendRet, sends, topic,
                   clock, before>>

\* Mutant: ctx.Done() is looked at before the error of SendMessage.
RespondChecksCtxFirst(c) ==
    /\ hpc[c] = "sent"
    /\ resp' = [resp EXCEPT ![c] = IF ctxExpired[c] THEN [code |-> 504]
                                   ELSE IF sendRet[c].err THEN [code |-> 502]
                                   ELSE Accepted(c, sendRet[c].offset)]
    /\ hpc' = [hpc EXCEPT ![c] = "done"]
    /\ retries' = [retries EXCEPT ![c] = 0]
    /\ UNCHANGED <<consumerVars, served, req, ev, handlerNow, ctxExpired, sendRet, sends, topic,
                   clock, before>>

\* Lines 119-140: the error of SendMessage, then ctx.Done(), then the 202.
Respond(c) ==
    /\ hpc[c] = "sent"
    /\ resp' = [resp EXCEPT ![c] = IF sendRet[c].err THEN [code |-> 502]
                                   ELSE IF ctxExpired[c] THEN [code |-> 504]
                                   ELSE Accepted(c, sendRet[c].offset)]
    /\ hpc' = [hpc EXCEPT ![c] = "done"]
    /\ retries' = [retries EXCEPT ![c] = 0]
    /\ UNCHANGED <<consumerVars, served, req, ev, handlerNow, ctxExpired, sendRet, sends, topic,
                   clock, before>>

NextGateway ==
    \/ \E c \in Conns : Ingest(c)
    \/ \E c \in Conns : Expire(c)
    \/ \E c \in Conns : SendMessage(c)
    \/ \E c \in Conns : SendRetry(c)
    \/ \E c \in Conns : SendOk(c)
    \/ \E c \in Conns : SendFail(c)
    \/ \E c \in Conns : Respond(c)

SpecGateway == Init /\ [][NextGateway]_vars

(***************************************************************************)
(* Properties                                                              *)
(***************************************************************************)

\* No handler step and no flush is in progress.
Idle == \A t \in Threads : pc[t] \in {"idle", "start", "select", "returned", "consume", "session"}

\* The events of the records read so far that parsed.
Parsed == {Event(q[1], q[2]) : q \in {r \in Partitions \X (1..MaxMsgs) :
              /\ r[2] <= Len(consumed[r[1]])
              /\ ~parseKafkaJSON(consumed[r[1]][r[2]]).err}}

\* How many times e occurs in the sequence s.
Occ(s, e) == Cardinality({i \in 1..Len(s) : s[i] = e})

\* The objects that hold e.
Holding(e) == {k \in 1..Len(objects) : Occ(objects[k].rows, e) > 0}

\* e is in the buffer and in no object, or in one object and not in the buffer.
InOnePlace(e) ==
    \/ Occ(events, e) = 1 /\ Holding(e) = {}
    \/ /\ Occ(events, e) = 0
       /\ Cardinality(Holding(e)) = 1
       /\ \A k \in Holding(e) : Occ(objects[k].rows, e) = 1

\* C1: with one partition loop and the process running, whenever no handler
\* step is in progress every parsed event is either in the buffer or in exactly
\* one object, whatever uploads failed or succeeded before.
C1_ExactlyOnePlace == (alive /\ Idle) => \A e \in Parsed : InOnePlace(e)

\* An upload failed and a later one succeeded, and events are in both places.
C1_Witness ==
    /\ alive /\ Idle /\ flushErrors >= 1
    /\ Len(objects) >= 1 /\ events # <<>>
    /\ Cardinality(Parsed) >= 3

\* C2 (as claimed): with two partitions claimed, no interleaving of their loops
\* loses an event or persists it twice: every parsed event whose position is
\* marked is in the buffer or in exactly one object.
C2_NoLossNoDuplicate ==
    alive => \A p \in claims : \A i \in 1..marked[p] :
                ~parseKafkaJSON(consumed[p][i]).err => InOnePlace(Event(p, i))

\* A step in which a flush returns an error.
FlushFails == flushErrors' = flushErrors + 1

\* C3: a flush that fails at encode or at upload puts no object, leaves the
\* buffer (still the events the attempt encoded) and the last-flush time as they
\* were, and its caller goes on: the loop is back at its select, the process runs.
C3_FailedFlushChangesNothing ==
    [][FlushFails =>
          /\ events' = events /\ objects' = objects /\ lastFlush' = lastFlush
          /\ alive'
          /\ \A t \in Threads : pc'[t] # pc[t] =>
                /\ pc[t] \in {"flush", "upload"}
                /\ pc[t] = "upload" => tmpFile[t] = events
                /\ pc'[t] = IF t = Main THEN "consume" ELSE "select"]_vars

\* A size-triggered flush failed at upload and the loop is back at its select
\* with the whole batch buffered.
C3_Witness ==
    \E p \in claims :
        /\ alive /\ pc[p] = "select" /\ flushErr[p] = "upload to minio"
        /\ Len(events) >= FlushEveryN /\ objects = <<>>

\* C4: a parsed event is appended before its position is marked, and the
\* position is marked before the size check and any flush it calls, and stays
\* marked whatever that flush returns.
C4_AppendMarkFlushOrder ==
    \A p \in claims :
        /\ marked[p] <= Offset(p)
        /\ pc[p] = "append" => marked[p] < Offset(p) /\ Occ(events, Event(p, Offset(p))) = 0
        /\ pc[p] = "mark" => marked[p] < Offset(p) /\ Occ(events, Event(p, Offset(p))) = 1
        /\ pc[p] \in {"check", "flush", "upload", "select", "returned"} => marked[p] = Offset(p)

\* A position is marked although the flush its message triggered failed and
\* the event is in no object.
C4_Witness ==
    \E p \in claims :
        /\ alive /\ pc[p] = "select" /\ flushErr[p] = "upload to minio"
        /\ Offset(p) >= 1 /\ marked[p] = Offset(p)
        /\ ~parseKafkaJSON(consumed[p][Offset(p)]).err
        /\ Occ(events, Event(p, Offset(p))) = 1 /\ Holding(Event(p, Offset(p))) = {}

\* C5: the steps that handle a record that does not parse change neither the
\* buffer nor the last-flush time nor the objects, call no flush, mark the
\* record's position and return to the select.
C5_BadRecordSkipped ==
    [][\A p \in claims :
          /\ (pc[p] # "skip" /\ pc'[p] = "skip") =>
                /\ parseKafkaJSON(consumed'[p][pos'[p]]).err
                /\ events' = events /\ lastFlush' = lastFlush /\ objects' = objects
          /\ (pc[p] = "skip" /\ pc'[p] # "skip") =>
                /\ events' = events /\ lastFlush' = lastFlush /\ objects' = objects
                /\ marked'[p] = Offset(p)
                /\ pc'[p] = "select"]_vars

\* A malformed record was skipped, its position marked, with events buffered.
C5_Witness ==
    \E p \in claims :
        /\ alive /\ pc[p] = "select" /\ Offset(p) >= 2
        /\ consumed[p][Offset(p)] = MalformedMsg
        /\ marked[p] = Offset(p)
        /\ events # <<>>

\* The flush condition of the specification's Accumulator, for a buffer evs at
\* time t with the last flush at time last.
ShouldFlush(evs, t, last) ==
    Len(evs) >= FlushEveryN \/ (Len(evs) > 0 /\ t - last >= FlushEverySecs)

\* The step of partition p's loop that decides on a flush after an append.
MsgDecision(p) == pc[p] = "check" /\ pc'[p] # "check"

\* The step of partition p's loop that takes a tick and decides on a flush.
TickDecision(p) == pc[p] = "select" /\ tickC[p] /\ ~tickC'[p] /\ pc'[p] # "returned"

\* C6 (as claimed): in every message or tick step a flush is attempted iff the
\* buffered count is >= N or the buffer is non-empty and T has elapsed.
C6_FlushIffEitherTrigger ==
    [][\A p \in claims : (MsgDecision(p) \/ TickDecision(p)) =>
          (pc'[p] = "flush" <=> ShouldFlush(events, now, lastFlush))]_vars

\* C6 (amended): each kind of step checks its own trigger only: a message step
\* that appended flushes iff the count is >= N; a tick step flushes iff the
\* buffer is non-empty and T has elapsed; a step that skips a bad record
\* flushes never.
C6_FlushIffOwnTrigger ==
    [][\A p \in claims :
          /\ MsgDecision(p) => (pc'[p] = "flush" <=> Len(events) >= FlushEveryN)
          /\ TickDecision(p) =>
                (pc'[p] = "flush" <=> (Len(events) > 0 /\ Since >= FlushEverySecs))
          /\ pc[p] = "skip" => pc'[p] \in {"skip", "select"}
          /\ pc'[p] = "flush" /\ pc[p] # "flush" => MsgDecision(p) \/ TickDecision(p)]_vars

\* Both triggers have fired: the bucket holds an object flushed by the size
\* check and one flushed by a tick.
C6_Witness ==
    /\ alive
    /\ \E i, j \in 1..Len(objects) : objects[i].by = "size" /\ objects[j].by = "timer"

\* A step in which an object is put.
Succeeds == Len(objects') = Len(objects) + 1

\* C7: the step that completes a successful flush leaves the buffer empty and
\* the last-flush time equal to the current time, so that the flush condition is
\* false; and from an empty buffer only the append of an event makes it true.
C7_AfterFlushConditionFalse ==
    [][/\ Succeeds =>
             /\ events' = <<>> /\ lastFlush' = now'
             /\ ~ShouldFlush(events', now', lastFlush')
       /\ (events = <<>> /\ ShouldFlush(events', now', lastFlush')) =>
             \E p \in claims : pc[p] = "append" /\ pc'[p] = "mark"]_vars

\* A flush has just succeeded, later than the session's start: the buffer is
\* empty and the last-flush time is the current time.
C7_Witness ==
    \E p \in claims :
        /\ alive /\ pc[p] = "select" /\ flushErr[p] = "nil"
        /\ Len(objects) >= 1 /\ events = <<>> /\ lastFlush = now /\ now >= 1

\* No flush has failed, and no tick and no Cleanup has called flush on a
\* non-empty buffer.
OnlySizeFlushes ==
    /\ flushErrors = 0
    /\ \A k \in 1..Len(objects) : objects[k].by = "size"
    /\ \A t \in Threads : pc[t] \in {"flush", "upload"} /\ events # <<>> => trigger[t] = "size"

\* C8: while uploads succeed and only the size check flushes, a flush is under
\* way exactly when the buffer has reached N events, every object holds exactly
\* N events, and between handler steps the parsed events are split into full
\* objects and a remainder of fewer than N buffered ones: N+1 parsed events give
\* one object and leave one event buffered.
C8_SizeFlushAtNth ==
    (alive /\ OnlySizeFlushes) =>
        /\ \A k \in 1..Len(objects) : Len(objects[k].rows) = FlushEveryN
        /\ \A p \in claims :
              /\ pc[p] \in {"flush", "upload"} => Len(events) = FlushEveryN
              /\ pc[p] \in {"select", "append", "returned"} => Len(events) < FlushEveryN
        /\ Idle => /\ Len(objects) = Cardinality(Parsed) \div FlushEveryN
                   /\ Len(events) = Cardinality(Parsed) % FlushEveryN

\* N+1 events parsed, one object of N events, one event buffered.
C8_Witness ==
    /\ alive /\ OnlySizeFlushes /\ Idle
    /\ Cardinality(Parsed) = FlushEveryN + 1
    /\ Len(objects) = 1 /\ Len(objects[1].rows) = FlushEveryN
    /\ Len(events) = 1

\* C9: with 1 <= k < N events buffered, a tick calls flush iff T has elapsed
\* since the last flush; when the upload of that flush succeeds exactly one
\* object is added, holding exactly the k buffered events, and the buffer is
\* empty; a tick that finds the buffer empty calls no flush and adds no object.
C9_TimerFlushOnce ==
    [][\A p \in claims :
          /\ (TickDecision(p) /\ Len(events) >= 1 /\ Len(events) < FlushEveryN) =>
                (pc'[p] = "flush" <=> Since >= FlushEverySecs)
          /\ (pc[p] = "upload" /\ trigger[p] = "timer" /\ Succeeds) =>
                /\ objects' = Append(objects, [rows |-> events, by |-> "timer"])
                /\ events' = <<>>
          /\ (TickDecision(p) /\ events = <<>>) =>
                pc'[p] = "select" /\ objects' = objects]_vars

\* One timer flush of k < N events has been uploaded, later ticks have been
\* taken with T elapsed again, and the bucket still holds the one object.
C9_Witness ==
    \E p \in claims :
        /\ alive /\ pc[p] = "select" /\ ~tickC[p]
        /\ Len(objects) = 1 /\ objects[1].by = "timer"
        /\ Len(objects[1].rows) >= 1 /\ Len(objects[1].rows) < FlushEveryN
        /\ events = <<>> /\ Since >= FlushEverySecs
        /\ Offset(p) = Len(objects[1].rows)

\* The claims are released: the session has ended and Cleanup has returned, or
\* the process has ended with its session.
Released ==
    \/ pc[Main] = "consume" /\ sessions >= 1
    \/ ~alive /\ pc[Main] # "consume"

\* C10 (as claimed): when the claims are released, after a shutdown signal or
\* the end of the session, the buffer is empty or the flush of it was attempted
\* and failed.
C10_FlushBeforeRelease ==
    Released => (events = <<>> \/ flushErr[Main] \notin {"none", "nil"})

\* The position of e is committed and e is nowhere: in no object, and not in
\* the memory of a running process (the buffer, a parquet file being uploaded).
Lost(e) ==
    /\ e[2] <= committed[e[1]]
    /\ Holding(e) = {}
    /\ alive => /\ Occ(events, e) = 0
                /\ \A t \in Threads : Occ(tmpFile[t], e) = 0

\* C11: once the position of a parsed event is committed and the process has
\* ended with the event in no object, the event stays in no object for ever:
\* the restarted consumer starts after the committed offset with an empty
\* buffer and does not read the record again.
C11_CommittedLossIsPermanent ==
    [][\A e \in Parsed : Lost(e) => Lost(e)']_vars

\* After a failed upload, a crash and a restart, a committed event is in no
\* object while a later record of its partition has been flushed to one.
C11_Witness ==
    \E e \in Parsed :
        /\ alive /\ Lost(e) /\ flushErrors >= 1
        /\ \E k \in 1..Len(objects) : \E i \in 1..Len(objects[k].rows) :
              objects[k].rows[i][1] = e[1] /\ objects[k].rows[i][2] > e[2]

(***************************************************************************)
(* Properties of the Gateway                                               *)
(***************************************************************************)
\* The handler on connection c has made its call of SendMessage and the call
\* has returned without an error.
Published(c) == hpc[c] \in {"sent", "done"} /\ sends[c] = 1 /\ ~sendRet[c].err

\* The record at (partition, offset) of the log is the event of the request
\* on connection c (its request_id is in no other record).
InLogAt(c, partition, offset) ==
    /\ partition \in Partitions
    /\ offset >= 0 /\ offset < Len(topic[partition])
    /\ topic[partition][offset + 1] = Marshal(ev[c])

\* The event of the request on connection c is somewhere in the log.
InLog(c) ==
    \E p \in Partitions : \E i \in 1..Len(topic[p]) :
        topic[p][i].request_id = ev[c].request_id

\* C12: a request is answered 202 only when its SendMessage returned without
\* an error, and the partition and offset of the response are where the log
\* holds the event of that request.
C12_AcceptedIsInLog ==
    \A c \in Conns :
        resp[c].code = 202 =>
            /\ Published(c)
            /\ resp[c].partition = sendRet[c].partition
            /\ resp[c].offset = sendRet[c].offset
            /\ InLogAt(c, resp[c].partition, resp[c].offset)

\* Two requests were accepted into the same partition, the later at offset 1.
C12_Witness ==
    \E c \in Conns : \E d \in Conns \ {c} :
        /\ resp[c].code = 202 /\ resp[c].offset = 1
        /\ resp[d].code = 202 /\ resp[d].offset = 0 /\ resp[d].partition = resp[c].partition

\* C14: once SendMessage has returned an error, the response is 502 and no
\* other, and the event of the request is not in the log.
C14_PublishFailureIs502 ==
    \A c \in Conns :
        (hpc[c] \in {"sent", "done"} /\ sendRet[c].err) =>
            /\ hpc[c] = "done" => resp[c].code = 502
            /\ resp[c].code \notin {202, 504}
            /\ ~InLog(c)

\* A publish failed for a request whose deadline had passed as well, and the
\* request was answered.
C14_Witness ==
    \E c \in Conns : hpc[c] = "done" /\ sendRet[c].err /\ ctxExpired[c] /\ resp[c].code = 502

\* What C15 says of a state.
TimeoutAfterPublish(c) ==
    /\ resp[c].code = 504 =>
          /\ Published(c) /\ ctxExpired[c]
          /\ InLogAt(c, sendRet[c].partition, sendRet[c].offset)
    /\ (hpc[c] = "done" /\ Published(c) /\ ctxExpired[c]) => resp[c].code = 504
    /\ (hpc[c] = "done" /\ ctxExpired[c]) => sends[c] = 1

\* The log keeps every record where it is.
LogKept ==
    \A p \in Partitions :
        /\ Len(topic'[p]) >= Len(topic[p])
        /\ \A i \in 1..Len(topic[p]) : topic'[p][i] = topic[p][i]

\* C15: a request is answered 504 only after its publish succeeded, and a
\* request whose deadline passes before its handler looks at ctx.Done() is
\* still published and is answered 504 (502 if the publish failed), never
\* 202; no step takes a record out of the log.
C15_TimeoutOnlyAfterPublish ==
    [][(\A c \in Conns : TimeoutAfterPublish(c)') /\ LogKept]_vars

\* The deadline of a request passed, the request was published all the same
\* and was answered 504.
C15_Witness ==
    \E c \in Conns :
        /\ resp[c].code = 504 /\ ctxExpired[c] /\ sends[c] = 1
        /\ InLogAt(c, sendRet[c].partition, sendRet[c].offset)

\* A body the Validator has to reject: not one JSON value, a key that is not
\* a field, a required field blank after trimming, or status_code 0.
Invalid(b) ==
    \/ b.syntax # "ok"
    \/ b.unknown
    \/ TrimSpace(b.fields.service) = ""
    \/ TrimSpace(b.fields.customer_id) = ""
    \/ TrimSpace(b.fields.endpoint) = ""
    \/ TrimSpace(b.fields.method) = ""
    \/ b.fields.status_code = 0

\* C13: a POST whose body is malformed JSON, has an unknown field, lacks a
\* non-blank service, customer_id, endpoint or method, or has status_code 0
\* is answered 400 and SendMessage is not called for it.
C13_InvalidBodyRejected ==
    \A c \in Conns :
        (hpc[c] = "done" /\ req[c].method = "POST" /\ Invalid(req[c].body)) =>
            /\ resp[c].code = 400
            /\ sends[c] = 0

\* The body passes Decode and the required-field check.
PassesValidation(b) == ~Decode(b).err /\ ~MissingRequired(Decode(b).ev)

ServerTimes == {k * (MicrosPerMilli \div 2) : k \in 1..clock}
ServerIds == {randomHex(12, n) : n \in 1..served}

\* C17: every record of the log has non-blank service, customer_id, endpoint
\* and method, a non-zero status_code, schema_version 1, the environment of
\* the deployment, and the ingested_at and request_id the handler set,
\* whatever the body carried in these four fields.
C17_PublishedRecordsNormalised ==
    /\ \A p \in Partitions : \A i \in 1..Len(topic[p]) :
          LET m == topic[p][i]
          IN /\ TrimSpace(m.service) # "" /\ TrimSpace(m.customer_id) # ""
             /\ TrimSpace(m.endpoint) # "" /\ TrimSpace(m.method) # ""
             /\ m.status_code # 0
             /\ m.schema_version = 1
             /\ m.environment = Env
             /\ m.ingested_at \in {FormatTime(t) : t \in ServerTimes}
             /\ m.request_id \in ServerIds
    /\ \A c \in Conns :
          Published(c) =>
              LET m == topic[sendRet[c].partition][sendRet[c].offset + 1]
              IN /\ m.ingested_at = FormatTime(handlerNow[c])
                 /\ m.request_id = ev[c].request_id

\* A request whose body carried its own ingested_at, schema_version,
\* environment and request_id has been published.
C17_Witness ==
    \E c \in Conns :
        /\ Published(c)
        /\ req[c].body.fields.schema_version = 9
        /\ req[c].body.fields.request_id = "caller"
        /\ req[c].body.fields.environment = "prod"
        /\ req[c].body.fields.ingested_at = 7000

\* C18: every record of the log has a non-blank trace_id; the handler keeps
\* the trace_id of the body when it is not blank and generates one when it
\* is blank (absent, empty or only white space).
C18_TraceIdNonBlank ==
    /\ \A p \in Partitions : \A i \in 1..Len(topic[p]) : TrimSpace(topic[p][i].trace_id) # ""
    /\ \A c \in Conns :
          Published(c) =>
              LET given == req[c].body.fields.trace_id
              IN IF TrimSpace(given) = ""
                 THEN ev[c].trace_id \in {randomHex(16, n) : n \in 1..served}
                 ELSE ev[c].trace_id = given

\* C19: when the publish of one request returned before the publish of
\* another was called, both succeeded and the two events have the same
\* customer_id, the events are in the same partition, the first at the lower
\* offset, retried sends included.
C19_SameCustomerSameOrder ==
    \A c \in Conns : \A d \in Conns :
        (/\ <<c, d>> \in before
         /\ Published(c) /\ Published(d)
         /\ ev[c].customer_id = ev[d].customer_id) =>
            /\ sendRet[c].partition = sendRet[d].partition
            /\ sendRet[c].offset < sendRet[d].offset

\* Two events of one customer were published one after the other, the second
\* after a retried send.
C19_Witness ==
    \E c \in Conns : \E d \in Conns :
        /\ <<c, d>> \in before
        /\ Published(c) /\ Published(d)
        /\ ev[c].customer_id = ev[d].customer_id
        /\ retries[d] >= 1

\* The row carries field f of the canonical event e with the same value; an
\* instant and the milliseconds of a row are the same value when they are the
\* same point in time.
Carries(row, e, f) ==
    /\ f \in DOMAIN row
    /\ IF f \in {"timestamp", "ingested_at"}
       THEN row[f] * MicrosPerMilli = e[f]
       ELSE row[f] = e[f]

\* C20: for every event published, the row the consumer parses from its
\* record carries every field of the event but attributes with the same value.
C20_RowCarriesAllButAttributes ==
    \A c \in Conns :
        Published(c) =>
            LET parsed == parseKafkaJSON(topic[sendRet[c].partition][sendRet[c].offset + 1])
            IN /\ ~parsed.err
               /\ \A f \in (DOMAIN ev[c]) \ {"attributes"} : Carries(parsed.row, ev[c], f)

(***************************************************************************)
(* Properties of the writer-consumer, continued                            *)
(***************************************************************************)
\* C21: the buffer never holds more than FlushEveryN events and no object
\* has more than FlushEveryN rows, whatever messages, ticks and upload
\* outcomes there are.
C21_BatchAtMostN ==
    /\ alive => Len(events) <= FlushEveryN
    /\ \A k \in 1..Len(objects) : Len(objects[k].rows) <= FlushEveryN

\* Partition p's loop is inside flush: between the call and the return.
InFlush(p) == pc[p] \in {"flush", "upload"}

\* C22: a loop handles one thing at a time: while it is inside flush it
\* receives no message, takes no tick and does not return, and between the
\* start of a flush and its return the buffer changes only by the clearing
\* that ends a successful flush.
C22_NoAppendDuringFlush ==
    [][\A p \in claims :
          InFlush(p) =>
              /\ pos'[p] = pos[p]
              /\ tickC[p] => tickC'[p]
              /\ pc'[p] \in {"flush", "upload", "select"}
              /\ \/ events' = events
                 \/ pc[p] = "upload" /\ pc'[p] = "select" /\ events' = <<>>]_vars

\* A flush is under way with a tick waiting and the session cancelled.
C22_Witness ==
    \E p \in claims : alive /\ pc[p] = "upload" /\ tickC[p] /\ ctxDone /\ Len(events) >= 1

\* The buffer still starts with the batch the last failed flush left in it.
Retained ==
    /\ alive /\ failed.rows # <<>>
    /\ Len(events) >= Len(failed.rows)
    /\ SubSeq(events, 1, Len(failed.rows)) = failed.rows

\* The step in which thread t calls flush.
StartsFlush(t) == pc[t] # "flush" /\ pc'[t] = "flush"

\* The size trigger holds in the message step of p's loop; the time trigger
\* holds in its tick step; the session calls Cleanup.
SizeStep(p) == pc[p] = "check" /\ Len(events) >= FlushEveryN
TimerStep(p) == pc[p] = "select" /\ tickC[p] /\ Len(events) > 0 /\ Since >= FlushEverySecs
CleanupStep == pc[Main] = "session" /\ ctxDone /\ \A p \in claims : pc[p] = "returned"

\* A flush that fails returns to its caller, which goes back to its select
\* (or ends the session): the same step makes no second attempt.
NoSecondAttempt ==
    \A t \in Threads :
        (pc[t] \in {"flush", "upload"} /\ pc'[t] # pc[t] /\ FlushFails) =>
            pc'[t] = IF t = Main THEN "consume" ELSE "select"

\* C23 (as claimed): a failed flush is not attempted again in the same step,
\* and a flush of the batch a failed flush left is called only by a message
\* step in which the size trigger holds or a tick step in which the time
\* trigger holds.
C23_RetryOnlyOnTrigger ==
    [][/\ NoSecondAttempt
       /\ \A t \in Threads :
             (Retained /\ StartsFlush(t)) =>
                 (t \in claims /\ (SizeStep(t) \/ TimerStep(t)))]_vars

\* C23 (amended): a failed flush is not attempted again in the same step, and
\* a flush of the batch a failed flush left is called by a message step in
\* which the size trigger holds, by a tick step in which the time trigger
\* holds, or by the Cleanup of the session, whether a trigger holds or not.
C23_RetryOnTriggerOrCleanup ==
    [][/\ NoSecondAttempt
       /\ \A t \in Threads :
             (Retained /\ StartsFlush(t)) =>
                 \/ t \in claims /\ (SizeStep(t) \/ TimerStep(t))
                 \/ t = Main /\ CleanupStep]_vars

\* A size flush failed, and a later tick step has called flush for the batch
\* it left.
C23_Witness ==
    \E p \in claims :
        /\ Retained /\ failed.by = "size"
        /\ pc[p] = "flush" /\ trigger[p] = "timer"

\* The events of one partition are in s in the order of their offsets.
InConsumedOrder(s) ==
    \A i \in 1..Len(s) : \A j \in 1..Len(s) :
        (i < j /\ s[i][1] = s[j][1]) => s[i][2] < s[j][2]

\* C25: the rows of every object, and the buffer they come from, are in the
\* order in which the events were consumed from the partition; a batch that
\* a failed flush left stays at the head of the buffer, ahead of the events
\* appended since.
C25_ObjectsInConsumedOrder ==
    /\ \A k \in 1..Len(objects) : InConsumedOrder(objects[k].rows)
    /\ alive => InConsumedOrder(events)
    /\ (alive /\ failed.rows # <<>> /\ Occ(events, failed.rows[1]) > 0) => Retained

\* An object was uploaded after a failed flush, with the events appended
\* since the failure behind those the failure left.
C25_Witness ==
    \E k \in 1..Len(objects) :
        /\ failed.rows # <<>>
        /\ Len(objects[k].rows) > Len(failed.rows)
        /\ SubSeq(objects[k].rows, 1, Len(failed.rows)) = failed.rows

\* C26: a flush called with an empty buffer returns nil at once: it puts no
\* object and leaves the buffer and the last-flush time as they were; so every
\* object has at least one row, whoever called the flush.
C26_EmptyFlushIsNoOp ==
    [][/\ \A t \in Threads :
             (pc[t] = "flush" /\ pc'[t] # pc[t] /\ Len(events) = 0) =>
                 /\ objects' = objects /\ events' = events /\ lastFlush' = lastFlush
                 /\ flushErr'[t] = "nil" /\ flushErrors' = flushErrors
       /\ \A k \in 1..Len(objects') : Len(objects'[k].rows) >= 1]_vars

\* Cleanup called flush with an empty buffer, long after the last flush time,
\* and flush returned nil with nothing put.
C26_Witness ==
    /\ alive /\ pc[Main] = "consume" /\ sessions >= 1
    /\ flushErr[Main] = "nil" /\ flushErrors = 0
    /\ events = <<>> /\ objects = <<>> /\ now - lastFlush >= FlushEverySecs

\* The batch the last failed flush left is the head of one object.
FailedBatchPut ==
    \E k \in 1..Len(objects) :
        /\ Len(objects[k].rows) >= Len(failed.rows)
        /\ SubSeq(objects[k].rows, 1, Len(failed.rows)) = failed.rows

\* C27: Setup sets the last-flush time and leaves the buffer alone; so while
\* the process runs, the events a failed flush (that of Cleanup included)
\* left are in the buffer, across the sessions that follow, until the first
\* flush that succeeds puts all of them in one object.
C27_BufferSurvivesRebalance ==
    [][/\ (pc[Main] = "consume" /\ pc'[Main] = "session") =>
             (events' = events /\ lastFlush' = now)
       /\ (alive /\ failed.rows # <<>>) => (Retained \/ FailedBatchPut)
       /\ (alive' /\ failed'.rows # <<>>) => (Retained' \/ FailedBatchPut')
       /\ (Retained /\ objects' # objects) => FailedBatchPut']_vars

\* The flush of Cleanup failed at the end of the first session, and the
\* events it left are in an object put in the second.
C27_Witness ==
    /\ alive /\ sessions = 2
    /\ failed.by = "cleanup" /\ failed.rows # <<>>
    /\ FailedBatchPut

\* C24: with one partition loop, no crash, ticks that keep coming and uploads
\* that do not fail for ever, every event appended to the buffer is at some
\* later time in an object.
C24_EventuallyPersisted ==
    \A i \in 1..MaxMsgsLive :
        (Occ(events, Event(1, i)) > 0) ~> (Holding(Event(1, i)) # {})

\* A flush failed and a later tick step flushed the events it left.
C24_Witness ==
    \E k \in 1..Len(objects) :
        /\ objects[k].by = "timer" /\ failed.rows # <<>>
        /\ Occ(objects[k].rows, failed.rows[1]) > 0
====
